---- MODULE Spec2Model ----
(***************************************************************************)
(* McIntosh dealer scraper: McIntoshScraper.scrape_dealers and the         *)
(* functions it calls (search_dealers, parse_dealer, save_dealers).        *)
(* The two scripts (mcintosh_scraper.py, mcintoshaustralia.py) differ only *)
(* in the country code, the locations table and the output file name; the  *)
(* model follows mcintosh_scraper.py.                                      *)
(*                                                                         *)
(* Text is a sequence of symbols.  The literals the code tests for         *)
(* ("No Dealer Found", "P:", "F:", "E:", "http", "www", "mailto:") are     *)
(* single symbols; " " is whitespace; "-" is the dash used by the key.     *)
(* An optional value (Python None, an element that find() does not find,   *)
(* an absent attribute) is a sequence of length 0; a present one is a      *)
(* sequence of length 1.  A Python dict is a function whose DOMAIN is the  *)
(* set of keys that were assigned.                                         *)
(***************************************************************************)
EXTENDS Integers, Sequences, FiniteSets, TLC

\* ---------------------------------------------------------------- bounds
\* number of entries of the locations table that are modelled
NumLocations == 2
\* largest number of <li class="item"> nodes in one response
MaxItems == 2
\* largest number of records accumulated over a run
MaxRecords == 4

\* ------------------------------------------------------------- text model
None == <<>>
Some(x) == <<x>>

\* str.strip(): drop leading and trailing whitespace
RECURSIVE LStrip(_)
LStrip(s) == IF s # <<>> /\ Head(s) = " " THEN LStrip(Tail(s)) ELSE s

RECURSIVE RStrip(_)
RStrip(s) ==
  IF s # <<>> /\ s[Len(s)] = " " THEN RStrip(SubSeq(s, 1, Len(s) - 1)) ELSE s

Strip(s) == RStrip(LStrip(s))

\* str.startswith(sym) for a one-symbol literal
StartsWith(s, sym) == s # <<>> /\ Head(s) = sym

\* sym in s
Contains(s, sym) == \E n \in 1..Len(s) : s[n] = sym

\* s.replace(sym, ''): every occurrence removed
RECURSIVE Replace(_, _)
Replace(s, sym) ==
  IF s = <<>> THEN <<>>
  ELSE (IF Head(s) = sym THEN <<>> ELSE <<Head(s)>>) \o Replace(Tail(s), sym)

\* ' '.join(parts)
RECURSIVE Join(_)
Join(parts) ==
  IF parts = <<>> THEN <<>>
  ELSE IF Len(parts) = 1 THEN parts[1]
  ELSE parts[1] \o <<" ">> \o Join(Tail(parts))

\* concatenation of a sequence of texts
RECURSIVE Concat(_)
Concat(parts) == IF parts = <<>> THEN <<>> ELSE Head(parts) \o Concat(Tail(parts))

\* Tag.stripped_strings: every text piece stripped, empty ones left out
NonEmpty(t) == t # <<>>

StrippedStrings(pieces) ==
  SelectSeq([n \in 1..Len(pieces) |-> Strip(pieces[n])], NonEmpty)

\* ------------------------------------------------------------ parse_dealer
\* item.text: all the text inside the <li>
ItemText(item) ==
  item.text
    \o (IF item.h4 = None THEN <<>> ELSE item.h4[1])
    \o (IF item.details = None \/ item.details[1].p = None THEN <<>>
        ELSE Concat(item.details[1].p[1]))

\* the address paragraph cleaned up (lines 85-87)
\* not part.startswith(('P:', 'F:', 'E:'))
NoContactLabel(part) ==
  ~ (StartsWith(part, "P:") \/ StartsWith(part, "F:") \/ StartsWith(part, "E:"))

CleanAddress(pieces) ==
  LET kept == SelectSeq(StrippedStrings(pieces), NoContactLabel)
      addr_parts == [n \in 1..Len(kept) |-> Strip(kept[n])]
  IN Join(addr_parts)

\* details.find('a', href=...): the href of the first anchor that matches
RECURSIVE FindHref(_, _)
FindHref(hrefs, starts) ==
  IF hrefs = <<>> THEN None
  ELSE IF Head(hrefs) # None /\ (\E sym \in starts : StartsWith(Head(hrefs)[1], sym))
       THEN Some(Head(hrefs)[1])
       ELSE FindHref(Tail(hrefs), starts)

\* lines 81-97: the fields read from the details block
dealer_with_details(name, details) ==
  LET address == IF details.p = None THEN <<>> ELSE CleanAddress(details.p[1])
      website == FindHref(details.hrefs, {"http", "www"})
      email == FindHref(details.hrefs, {"mailto:"})
  IN [name |-> name,
      address |-> address,
      website |-> IF website = None THEN <<>> ELSE website[1],
      email |-> IF email = None THEN <<>> ELSE Replace(email[1], "mailto:")]

\* variant: a node without details block gets an empty address
parse_dealer_default_address(item) ==
  IF item.raises THEN None
  ELSE IF item.h4 = None THEN None
  ELSE IF item.details = None
       THEN Some([name |-> Strip(item.h4[1]), address |-> <<>>])
       ELSE Some(dealer_with_details(Strip(item.h4[1]), item.details[1]))

\* parse_dealer(item): None when the function returns None (no name found,
\* or an exception caught at line 101), otherwise Some(dealer dict)
parse_dealer(item) ==
  IF item.raises THEN None
  ELSE IF item.h4 = None THEN None
  ELSE IF item.details = None
       THEN Some([name |-> Strip(item.h4[1])])
       ELSE Some(dealer_with_details(Strip(item.h4[1]), item.details[1]))

\* ----------------------------------------------------------- search_dealers
\* variant: the loop stops at the first node that gives no record
RECURSIVE dealer_loop_break(_, _)
dealer_loop_break(dealer_items, found) ==
  IF dealer_items = <<>> THEN found
  ELSE
    LET item == Head(dealer_items) IN
    IF ~ Contains(ItemText(item), "No Dealer Found") /\ parse_dealer(item) # None
    THEN dealer_loop_break(Tail(dealer_items), Append(found, parse_dealer(item)[1]))
    ELSE found

\* the for loop of search_dealers (lines 53-59) over the nodes still to visit
RECURSIVE dealer_loop(_, _)
dealer_loop(dealer_items, found) ==
  IF dealer_items = <<>> THEN found
  ELSE
    LET item == Head(dealer_items)
        dealer == parse_dealer(item)
    IN
    IF ~ Contains(ItemText(item), "No Dealer Found")
       /\ dealer # None
       /\ DOMAIN dealer[1] # {}
    THEN dealer_loop(Tail(dealer_items), Append(found, dealer[1]))
    ELSE dealer_loop(Tail(dealer_items), found)

\* search_dealers(...) given what the request produced: any exception
\* (requests.post, raise_for_status, BeautifulSoup) is caught and gives []
search_dealers(resp) ==
  IF resp.kind = "ok" THEN dealer_loop(resp.items, <<>>) ELSE <<>>

\* ------------------------------------------------------------ save_dealers
FieldOrder == <<"name", "address", "website", "email">>

\* pd.DataFrame(dealers).columns: the keys in order of first appearance;
\* parse_dealer assigns them in FieldOrder
Columns(recs) ==
  LET present(f) == \E r \in 1..Len(recs) : f \in DOMAIN recs[r]
  IN SelectSeq(FieldOrder, present)

\* df.to_csv(..., index=False): header and one row per record, a missing
\* value written as the empty string
ToCsv(recs) ==
  [header |-> Columns(recs),
   rows |-> [r \in 1..Len(recs) |->
              [c \in 1..Len(Columns(recs)) |->
                 IF Columns(recs)[c] \in DOMAIN recs[r]
                 THEN recs[r][Columns(recs)[c]] ELSE <<>>]]]

\* variant: no test for an empty list
save_dealers_always(recs) == Some(ToCsv(recs))

\* save_dealers(dealers): the file it writes, None when it writes nothing
save_dealers(recs) == IF recs = <<>> THEN None ELSE Some(ToCsv(recs))

\* variant: the website is part of the key
dedup_key_website(dealer) ==
  dealer.name \o <<"-">> \o dealer.address \o <<"-">> \o dealer.website

\* key = f"{dealer['name']}-{dealer['address']}"
dedup_key(dealer) == dealer.name \o <<"-">> \o dealer.address

\* ------------------------------------------------------------------ inputs
Item(text, h4, details, raises) ==
  [text |-> text, h4 |-> h4, details |-> details, raises |-> raises]

Details(p, hrefs) == Some([p |-> p, hrefs |-> hrefs])

\* <li class="item">No Dealer Found ... </li>, here with a full dealer inside
ItemSentinel ==
  Item(<<"No Dealer Found">>, Some(<<"a">>),
       Details(Some(<< <<"b">> >>), << Some(<<"www", "s">>) >>), FALSE)
\* no div.dealers-head / h4
ItemNoHead == Item(<<>>, None, Details(Some(<< <<"c">> >>), <<>>), FALSE)
\* <h4> </h4>: the heading is there, its text is blank
ItemBlankName == Item(<<>>, Some(<<" ">>), Details(Some(<< <<"c">> >>), <<>>), FALSE)
\* name "a-b", address "c"
ItemAB_C ==
  Item(<<>>, Some(<<" ", "a", "-", "b">>),
       Details(Some(<< <<" ">>, <<"c", " ">> >>), << Some(<<"www", "x">>) >>), FALSE)
\* name "a", address "b-c", phone line dropped, tel: anchor skipped
ItemA_BC ==
  Item(<<>>, Some(<<"a">>),
       Details(Some(<< <<"b", "-", "c">>, <<" ", "P:", "1">> >>),
               << Some(<<"tel:", "1">>), Some(<<"http", "x">>),
                  Some(<<"mailto:", "m">>) >>), FALSE)
\* the same dealer as ItemA_BC with another website and no email
ItemA_BC2 ==
  Item(<<>>, Some(<<"a">>),
       Details(Some(<< <<"b", "-", "c">> >>), << None, Some(<<"www", "y">>) >>), FALSE)
\* a name and no div.dealers-details
ItemNoDetails == Item(<<>>, Some(<<"d">>), None, FALSE)
\* a details block without <p>
ItemNoP == Item(<<>>, Some(<<"a">>), Details(None, <<>>), FALSE)
\* a node on which parsing raises
ItemRaises ==
  Item(<<>>, Some(<<"e">>), Details(Some(<< <<"f">> >>), <<>>), TRUE)

Items ==
  {ItemSentinel, ItemNoHead, ItemBlankName, ItemAB_C, ItemA_BC, ItemA_BC2,
   ItemNoDetails, ItemNoP, ItemRaises}

RECURSIVE SeqsUpTo(_, _)
SeqsUpTo(S, n) ==
  IF n = 0 THEN {<<>>}
  ELSE SeqsUpTo(S, n - 1)
         \cup {Append(s, x) : s \in {t \in SeqsUpTo(S, n - 1) : Len(t) = n - 1}, x \in S}

Failures == {"transport_error", "http_error", "parser_error"}

\* what one requests.post can produce
Responses ==
  {[kind |-> f, items |-> <<>>] : f \in Failures}
    \cup {[kind |-> "ok", items |-> s] : s \in SeqsUpTo(Items, MaxItems)}

\* what a search_dealers call can do: whether it failed, and what it returned
Outcomes ==
  {[failed |-> resp.kind \in Failures, dealers |-> search_dealers(resp)] :
     resp \in Responses}

\* ------------------------------------------------------------------- state
VARIABLES
  pc,             \* "loop", "dedup", "done", "crashed"
  i,              \* index in locations of the next point to process
  queried,        \* the locations a request was sent for, in order
  response,       \* the response under study of the single-call runs
  dealers,        \* what the last search_dealers call returned
  errors,         \* locations for which line 64 logged "Error searching dealers"
  all_dealers,    \* scrape_dealers: all_dealers
  k,              \* position of the deduplication walk in all_dealers
  seen,           \* scrape_dealers: seen
  unique_dealers, \* scrape_dealers: unique_dealers
  csv_file,       \* the output file, None while it does not exist
  writes          \* number of to_csv calls so far

vars ==
  <<pc, i, queried, response, dealers, errors, all_dealers, k, seen,
    unique_dealers, csv_file, writes>>

Init ==
  /\ pc = "loop"
  /\ i = 1
  /\ queried = <<>>
  /\ response = None
  /\ dealers = <<>>
  /\ errors = {}
  /\ all_dealers = <<>>
  /\ k = 1
  /\ seen = {}
  /\ unique_dealers = <<>>
  /\ csv_file = None
  /\ writes = 0

\* variant: search_dealers without try/except, a failure ends the run
SearchReturn_no_try(failed, found) ==
  /\ pc = "loop"
  /\ i <= NumLocations
  /\ Len(all_dealers) + Len(found) <= MaxRecords
  /\ queried' = Append(queried, i)
  /\ dealers' = found
  /\ errors' = errors
  /\ all_dealers' = all_dealers \o found
  /\ i' = IF failed THEN i ELSE i + 1
  /\ pc' = IF failed THEN "crashed" ELSE IF i = NumLocations THEN "dedup" ELSE "loop"
  /\ UNCHANGED <<k, seen, unique_dealers, csv_file, writes>>

\* lines 136-140: one iteration of the loop over locations; the call of
\* search_dealers sent its request, returned found, and logged an error
\* (line 64) exactly if failed
\* (the third conjunct keeps the accumulated list within MaxRecords)
SearchReturn(failed, found) ==
  /\ pc = "loop"
  /\ i <= NumLocations
  /\ Len(all_dealers) + Len(found) <= MaxRecords
  /\ queried' = Append(queried, i)
  /\ dealers' = found
  /\ errors' = IF failed THEN errors \cup {i} ELSE errors
  /\ all_dealers' = all_dealers \o found
  /\ i' = i + 1
  /\ pc' = IF i = NumLocations THEN "dedup" ELSE "loop"
  /\ UNCHANGED <<k, seen, unique_dealers, csv_file, writes>>

\* the iteration for any response the endpoint can give
Search ==
  /\ \E out \in Outcomes : SearchReturn(out.failed, out.dealers)
  /\ UNCHANGED response

\* variant: a record whose key was seen replaces the one kept before
DedupStep_last_wins ==
  /\ pc = "dedup"
  /\ k <= Len(all_dealers)
  /\ LET dealer == all_dealers[k] IN
       IF "address" \notin DOMAIN dealer
       THEN /\ pc' = "crashed"
            /\ UNCHANGED <<k, seen, unique_dealers>>
       ELSE /\ pc' = pc
            /\ k' = k + 1
            /\ seen' = seen \cup {dedup_key(dealer)}
            /\ unique_dealers' =
                 IF dedup_key(dealer) \notin seen
                 THEN Append(unique_dealers, dealer)
                 ELSE [r \in 1..Len(unique_dealers) |->
                         IF dedup_key(unique_dealers[r]) = dedup_key(dealer)
                         THEN dealer ELSE unique_dealers[r]]
  /\ UNCHANGED <<i, queried, response, dealers, errors, all_dealers, csv_file, writes>>

\* lines 145-149: one iteration of the deduplication walk; dealer['address']
\* raises KeyError when the key was never assigned, nothing catches it
DedupStep ==
  /\ pc = "dedup"
  /\ k <= Len(all_dealers)
  /\ LET dealer == all_dealers[k] IN
       IF "address" \notin DOMAIN dealer
       THEN /\ pc' = "crashed"
            /\ UNCHANGED <<k, seen, unique_dealers>>
       ELSE /\ pc' = pc
            /\ k' = k + 1
            /\ seen' = seen \cup {dedup_key(dealer)}
            /\ unique_dealers' =
                 IF dedup_key(dealer) \notin seen
                 THEN Append(unique_dealers, dealer) ELSE unique_dealers
  /\ UNCHANGED <<i, queried, response, dealers, errors, all_dealers, csv_file, writes>>

\* lines 152-163: the walk is over, save_dealers(unique_dealers)
Save ==
  /\ pc = "dedup"
  /\ k > Len(all_dealers)
  /\ csv_file' = IF save_dealers(unique_dealers) = None THEN csv_file
                 ELSE save_dealers(unique_dealers)
  /\ writes' = IF save_dealers(unique_dealers) = None THEN writes ELSE writes + 1
  /\ pc' = "done"
  /\ UNCHANGED <<i, queried, response, dealers, errors, all_dealers, k, seen,
                 unique_dealers>>

Next == Search \/ DedupStep \/ Save

Spec == Init /\ [][Next]_vars

\* ------------------------------------------------- one response under study
\* The run is at its last location, the earlier ones having given nothing,
\* and the response of the last request is fixed from the start, so that the
\* nodes that went in can be compared with the records that come out.
InitSearch ==
  /\ pc = "loop"
  /\ i = NumLocations
  /\ queried = [n \in 1..(NumLocations - 1) |-> n]
  /\ response \in {Some(resp) : resp \in Responses}
  /\ dealers = <<>>
  /\ errors = {}
  /\ all_dealers = <<>>
  /\ k = 1
  /\ seen = {}
  /\ unique_dealers = <<>>
  /\ csv_file = None
  /\ writes = 0

\* the iteration for the response under study
SearchLast ==
  /\ response # None
  /\ SearchReturn(response[1].kind \in Failures, search_dealers(response[1]))
  /\ UNCHANGED response

NextSearch == SearchLast \/ DedupStep \/ Save

SpecSearch == InitSearch /\ [][NextSearch]_vars

\* ------------------------------------------------------------- properties
AllFields == {"name", "address", "website", "email"}

\* the n-th smallest element of a set of integers
Nth(S, n) == CHOOSE m \in S : Cardinality({x \in S : x < m}) = n - 1

\* the subsequence of recs at the positions in idx, in increasing order
SubsequenceAt(recs, idx) == [r \in 1..Cardinality(idx) |-> recs[Nth(idx, r)]]

SameNameAddress(d, e) == d.name = e.name /\ d.address = e.address

\* the node is not skipped as sentinel, has a heading, and parses quietly
NamedItem(item) ==
  /\ ~ Contains(ItemText(item), "No Dealer Found")
  /\ item.h4 # None
  /\ ~ item.raises

\* the search_dealers call on the response under study has returned
Searched == response # None /\ i > NumLocations

\* C1: the record sequence handed to save_dealers never contains two records
\* with the same name and the same address.
C1_NoDuplicateNameAddress ==
  \A a, b \in 1..Len(unique_dealers) :
    a < b => ~ SameNameAddress(unique_dealers[a], unique_dealers[b])

C1_Witness ==
  /\ pc = "done"
  /\ Len(unique_dealers) >= 2
  /\ \E m, n \in 1..Len(all_dealers) :
       /\ m < n
       /\ all_dealers[m] # all_dealers[n]
       /\ SameNameAddress(all_dealers[m], all_dealers[n])

\* C2 (as claimed): every record returned by search_dealers, and every record
\* of the result set, has a non-empty name.
C2_NonEmptyName ==
  /\ \A r \in 1..Len(dealers) : dealers[r].name # <<>>
  /\ \A r \in 1..Len(unique_dealers) : unique_dealers[r].name # <<>>

\* C3 (as claimed): whatever the per-point outcomes, the run never ends in an
\* unhandled exception.
C3_NoUnhandledException == pc # "crashed"

\* C4 (as claimed): a non-sentinel node with a name and no details block gives
\* a record with the empty string as address, and the record is in the result
\* set at the end of the run.
C4_NoDetailsEmptyAddress ==
  (Searched /\ response[1].kind = "ok") =>
    \A n \in 1..Len(response[1].items) :
      LET item == response[1].items[n] IN
      (NamedItem(item) /\ item.details = None) =>
        /\ \E r \in 1..Len(dealers) :
             /\ dealers[r].name = Strip(item.h4[1])
             /\ "address" \in DOMAIN dealers[r]
             /\ dealers[r].address = <<>>
        /\ pc = "done" =>
             \E u \in 1..Len(unique_dealers) :
               /\ unique_dealers[u].name = Strip(item.h4[1])
               /\ unique_dealers[u].address = <<>>

\* C5 (as claimed): a record is dropped only if an earlier record has the same
\* name and the same address, so at the end of the walk every (name, address)
\* pair of the concatenation is the pair of a record that was kept.
C5_DistinctPairsBothKept ==
  pc = "done" =>
    \A m \in 1..Len(all_dealers) :
      \E u \in 1..Len(unique_dealers) :
        SameNameAddress(unique_dealers[u], all_dealers[m])

\* C6: a search point whose fetch or extraction fails contributes no records
\* and leaves the accumulated records as they were, and the loop goes on:
\* every location is queried exactly once, in the configured order.
C6_PointIsolation ==
  /\ [](/\ queried = [n \in 1..Len(queried) |-> n]
        /\ Len(queried) = (IF pc = "loop" THEN i - 1 ELSE NumLocations))
  /\ [][errors' # errors =>
          /\ errors' = errors \cup {i}
          /\ dealers' = <<>>
          /\ all_dealers' = all_dealers
          /\ queried' = Append(queried, i)
          /\ pc' = (IF i = NumLocations THEN "dedup" ELSE "loop")]_vars

C6_Witness ==
  /\ pc = "done"
  /\ 1 \in errors
  /\ queried = [n \in 1..NumLocations |-> n]
  /\ all_dealers # <<>>

\* C7: the result set is the subsequence of the concatenation that keeps the
\* first occurrence of each key name + "-" + address, in the original order.
C7_FirstOccurrenceSubsequence ==
  pc \in {"dedup", "done"} =>
    LET key(d) == d.name \o <<"-">> \o d.address
        first == {m \in 1..(k - 1) :
                    \A n \in 1..(m - 1) : key(all_dealers[n]) # key(all_dealers[m])}
    IN unique_dealers = SubsequenceAt(all_dealers, first)

C7_Witness ==
  /\ pc = "done"
  /\ Len(unique_dealers) >= 2
  /\ \E m, n \in 1..Len(all_dealers) :
       /\ m < n
       /\ SameNameAddress(all_dealers[m], all_dealers[n])
       /\ all_dealers[m].website # all_dealers[n].website
       /\ \E u \in 1..Len(unique_dealers) : unique_dealers[u] = all_dealers[m]

\* C8: the file is written at most once, only by the final save step after
\* every location was processed and the walk finished, and only for a
\* non-empty result set; an empty result set gives no file.
C8_WriteOnceAtEnd ==
  /\ writes <= 1
  /\ (csv_file # None) <=> (writes = 1)
  /\ writes = 1 =>
       /\ pc = "done"
       /\ Len(queried) = NumLocations
       /\ k > Len(all_dealers)
       /\ unique_dealers # <<>>
  /\ (pc = "done" /\ unique_dealers = <<>>) => (writes = 0 /\ csv_file = None)

C8_Witness ==
  /\ pc = "done"
  /\ unique_dealers = <<>>
  /\ csv_file = None
  /\ writes = 0
  /\ Len(queried) = NumLocations

\* C9: for a successful response search_dealers returns, in document order,
\* the records of exactly the nodes that do not contain the sentinel and that
\* parse to a record; a skipped node does not stop the later ones.
C9_SearchDealersDocumentOrder ==
  (Searched /\ response[1].kind = "ok") =>
    LET items == response[1].items
        yields == {m \in 1..Len(items) :
                     /\ ~ Contains(ItemText(items[m]), "No Dealer Found")
                     /\ parse_dealer(items[m]) # None}
    IN /\ Len(dealers) = Cardinality(yields)
       /\ \A r \in 1..Len(dealers) : dealers[r] = parse_dealer(items[Nth(yields, r)])[1]

C9_Witness ==
  /\ Searched
  /\ response[1].kind = "ok"
  /\ Len(response[1].items) >= 2
  /\ Contains(ItemText(response[1].items[1]), "No Dealer Found")
  /\ parse_dealer(response[1].items[2]) # None
  /\ Len(dealers) = 1

\* C10: when a file is written, every record written has the four fields
\* name, address, website, email, the header is exactly these, and the file
\* has one row per record of the result set, in the same order.
C10_FileRows ==
  csv_file # None =>
    /\ \A r \in 1..Len(unique_dealers) : DOMAIN unique_dealers[r] = AllFields
    /\ csv_file[1].header = <<"name", "address", "website", "email">>
    /\ Len(csv_file[1].rows) = Len(unique_dealers)
    /\ \A r \in 1..Len(unique_dealers) :
         csv_file[1].rows[r] =
           <<unique_dealers[r].name, unique_dealers[r].address,
             unique_dealers[r].website, unique_dealers[r].email>>

C10_Witness ==
  /\ csv_file # None
  /\ Len(unique_dealers) >= 2
  /\ \E r \in 1..Len(unique_dealers) : unique_dealers[r].email # <<>>

====
